---- MODULE Spec2Model ----
(***************************************************************************)
(* Worker (task supervisor) of internal/client/worker.go as a state        *)
(* machine: the run loop, the prestart goroutine, the stats collector      *)
(* goroutines, the external command methods and the snapshot on disk.      *)
(* The driver, its handles and the restart tracker are the environment.    *)
(***************************************************************************)
EXTENDS Integers, Sequences, FiniteSets, TLC

\* ---------------------------------------------------------------- bounds
MaxRestarts == 1        \* restarts the tracker's policy grants (its budget)
MaxRestartCalls == 1    \* calls of Restart() by external callers
MaxDestroyCalls == 1    \* calls of Destroy()/Kill() by external callers
MaxLatchCalls == 2      \* calls of Destroy()/Kill() and of UnblockStart(), where the latches are checked
MaxCrashes == 1         \* agent restarts (a new Worker over the same disk)
MaxFaults == 1          \* writes of the state file that fail
MaxShutdownFailures == 5 \* calls of Shutdown() in a row that the driver fails
MaxColumns == 3         \* columns of the key BuildRangeComparison is called with
MaxValue == 2           \* column values and arguments are 0..MaxValue

\* ------------------------------------------------------ program constants
killBackoffBaseline == 5     \* seconds
killBackoffLimit == 120      \* seconds (2 * time.Minute)
killFailureLimit == 5

\* ------------------------------------------------------------ vocabulary
TaskStatePending == "pending"
TaskStateRunning == "running"
TaskStateDead == "dead"
NoState == ""

TaskReceived == "Received"
TaskStarted == "Started"
TaskKilling == "Killing"
TaskKilled == "Killed"
TaskTerminated == "Terminated"
TaskDriverFailure == "Driver Failure"
TaskSetupFailure == "Setup Failure"
TaskRestarting == "Restarting"
TaskNotRestarting == "Not Restarting"
TaskRestartSignal == "Restart Signaled"
TaskSiblingFailed == "Sibling Task Failed"

\* A *models.TaskEvent; Type = "nil" is the nil pointer.
NewTaskEvent(type) ==
    [Type |-> type, Error |-> FALSE, FailsTask |-> FALSE, Delay |-> 0, RestartReason |-> "none"]
NilEvent == NewTaskEvent("nil")

\* Handles are numbered in the order the driver creates them; 0 is nil.
NilHandle == 0
OldHandle == 1          \* the handle a former agent process left behind
MaxHandles == 2 + MaxRestarts + MaxRestartCalls
Handles == 1..MaxHandles
\* A handle's ID() is the string the snapshot stores, and what driver.Open
\* finds the handle by; "" is EmptyID.
EmptyID == <<>>
ID(h) == <<"handle", h>>
HandleOfID(id) == IF id = EmptyID THEN NilHandle ELSE id[2]

\* The task definitions: the one the allocation carries and the one an
\* earlier snapshot may carry (same Type, hence the same state file).
AllocTask == "task-v1"
SnapTask == "task-v0"
NilTask == "nil"

NoSnapshot == [exists |-> FALSE, Task |-> NilTask, HandleID |-> EmptyID, PayloadRendered |-> FALSE]

VARIABLES
    pc,               \* position of the caller of RestoreState/MarkReceived/Run
    task,             \* r.task
    payloadRendered,  \* r.payloadRendered
    handle,           \* r.handle
    running,          \* r.running
    taskStats,        \* r.taskStats: the handle the latest sample came from, 0 = nil
    disk,             \* the store.json of this task
    saving,           \* an external SaveState between its read and its write
    restoreRes,       \* RestoreState's outcome: "none" (not called), "err" (an error),
                      \* "ok" (no handle to open), "opened", "not opened"
    startCh,          \* buffered signals in r.startCh (capacity 1)
    prestart,         \* the prestart goroutines not yet returned
    prestartResultCh, \* values buffered in the current prestartResultCh
    restartCh,        \* Restart() callers blocked on r.restartCh
    destroy, destroyEvent,
    destroyCh,        \* number of times r.destroyCh was closed
    unblocked,
    unblockCh,        \* number of times r.unblockCh was closed
    waitCh,           \* number of times r.waitCh was closed
    stopCollection,   \* run's local: 0 = nil, else a channel
    handleWaitCh,     \* run's local: 0 = nil, else the handle whose WaitCh it is
    stopChans,        \* stop channels made so far -> times closed
    collectors,       \* the stats collector goroutines
    hstate,           \* the driver's handles
    tracker,          \* r.restartTracker
    kill,             \* locals of killTask/handleDestroy and of its caller
    updates,          \* the calls of r.updater, in order
    lastPersist,      \* how the latest updater call was persisted: "none", "ok", "err"
    obs,              \* what the collectors and the loop were seen doing (history)
    panicked,         \* "" or the run-time panic that stopped the process
    saved,            \* the fields as they were when the state file was last written (history)
    faults,           \* writes of the state file that will still fail
    budget,           \* calls the environment will still make
    query             \* a call of BuildRangeComparison: its arguments, its results, a row tried

vars == <<pc, task, payloadRendered, handle, running, taskStats, disk, saving,
          restoreRes, startCh, prestart, prestartResultCh, restartCh,
          destroy, destroyEvent, destroyCh, unblocked, unblockCh, waitCh,
          stopCollection, handleWaitCh, stopChans, collectors, hstate, tracker,
          kill, updates, lastPersist, obs, panicked, saved, faults, budget, query>>

\* a panic ends the process: nothing of it takes a step any more
Alive == panicked = ""

\* groups of variables, for UNCHANGED
fieldV == <<task, payloadRendered, restoreRes>>
persistV == <<disk, saving, saved, faults>>
emitV == <<disk, saving, saved, faults, updates, lastPersist>>
destroyV == <<destroy, destroyEvent, destroyCh>>
unblockV == <<unblocked, unblockCh>>
preV == <<startCh, prestart, prestartResultCh>>
restartV == <<restartCh>>
collV == <<stopChans, collectors, taskStats>>
localV == <<stopCollection, handleWaitCh>>
envV == <<hstate, panicked, budget>>

\* ------------------------------------------------------------- helpers
Min(a, b) == IF a < b THEN a ELSE b

RECURSIVE Pow2(_)
Pow2(n) == IF n = 0 THEN 1 ELSE 2 * Pow2(n - 1)

RECURSIVE SumSeq(_)
SumSeq(s) == IF s = <<>> THEN 0 ELSE Head(s) + SumSeq(Tail(s))

\* The handle the driver creates next.
Unborn == {h \in Handles : hstate[h] = "unborn"}
NextHandle == CHOOSE h \in Unborn : \A g \in Unborn : h <= g

\* err: 0 is nil, n is the error of the n-th call of Shutdown
NoKill == [i |-> 0, err |-> 0, destroyed |-> FALSE, calls |-> 0,
           sleeps |-> <<>>, cont |-> "none", event |-> NilEvent]
NewTracker == [startErr |-> "none", waitRes |-> FALSE, triggered |-> FALSE]
\* what the environment will still do: calls of Restart, of Destroy or Kill
\* and of UnblockStart, restarts of the agent, and restarts the restart
\* policy grants
Budget(restarts, destroys, unblocks, crashes, policy) ==
    [restart |-> restarts, destroy |-> destroys, unblock |-> unblocks, crash |-> crashes,
     policy |-> policy]
NoObs == [lateSample |-> FALSE, foreignSample |-> FALSE, seenAt |-> -1, starts |-> 0,
          seenRunning |-> FALSE, undelivered |-> FALSE, startsAtDestroy |-> -1]
NoFields == [Task |-> NilTask, Handle |-> NilHandle, PayloadRendered |-> FALSE]
NoSaving == [held |-> FALSE, snap |-> NoSnapshot, fields |-> NoFields]
NoPrestart == [cur |-> "none", old |-> 0]
NoQuery == [phase |-> "none"]

\* ------------------------------------------------------ NewWorker (96-124)
\* The fields NewWorker sets; everything else has Go's zero value.
NewWorker ==
    /\ pc = "new"
    /\ task = AllocTask
    /\ payloadRendered = FALSE
    /\ handle = NilHandle
    /\ running = FALSE
    /\ taskStats = NilHandle
    /\ saving = NoSaving
    /\ restoreRes = "none"
    /\ startCh = 0
    /\ prestart = NoPrestart
    /\ prestartResultCh = <<>>
    /\ restartCh = 0
    /\ destroy = FALSE /\ destroyEvent = NilEvent /\ destroyCh = 0
    /\ unblocked = FALSE /\ unblockCh = 0
    /\ waitCh = 0
    /\ stopCollection = 0 /\ handleWaitCh = NilHandle
    /\ stopChans = <<>>
    /\ collectors = {}
    /\ tracker = NewTracker
    /\ kill = NoKill
    /\ updates = <<>>
    /\ lastPersist = "none"
    /\ obs = NoObs
    /\ panicked = ""

\* What an earlier agent process may have left in the state file: nothing, a
\* snapshot without a task, or a snapshot of a task that had (or had not) a
\* handle; the handle's process may be alive or gone.
InitDisks ==
    {NoSnapshot,
     [exists |-> TRUE, Task |-> NilTask, HandleID |-> EmptyID, PayloadRendered |-> FALSE]}
    \cup {[exists |-> TRUE, Task |-> SnapTask, HandleID |-> id, PayloadRendered |-> TRUE] :
             id \in {EmptyID, ID(OldHandle)}}

InitWith(b, f) ==
    /\ NewWorker
    /\ disk \in InitDisks
    /\ \E s \in {"live", "gone"} :
          hstate = [h \in Handles |-> IF h = OldHandle THEN s ELSE "unborn"]
    /\ (disk.HandleID = EmptyID => hstate[OldHandle] = "gone")
    /\ saved = [Task |-> disk.Task, Handle |-> HandleOfID(disk.HandleID),
                PayloadRendered |-> disk.PayloadRendered]
    /\ budget = b
    /\ faults = f
    /\ query = NoQuery

\* ------------------------------------------------- snapshot (150-228)
\* persistState(path, snap): the file is replaced as a whole or left as it was.
persistState(snap, ok) == IF ok THEN snap ELSE disk

\* whether a write of the file succeeds
Outcomes == IF faults > 0 THEN BOOLEAN ELSE {TRUE}

\* a SaveState that never records the handle
HandleIDOfNone(h) == EmptyID

\* snap.HandleID as SaveState sets it (203-207)
HandleIDOf(h) == IF h # NilHandle THEN ID(h) ELSE EmptyID

\* a SaveState that leaves PayloadRendered out of the snapshot
SnapshotWithoutPayload ==
    [exists |-> TRUE, Task |-> task, HandleID |-> HandleIDOf(handle), PayloadRendered |-> FALSE]

\* The snapshot SaveState builds from the fields (197-207).
Snapshot ==
    [exists |-> TRUE, Task |-> task, HandleID |-> HandleIDOf(handle),
     PayloadRendered |-> payloadRendered]

\* the fields a snapshot is taken of (history)
Fields == [Task |-> task, Handle |-> handle, PayloadRendered |-> payloadRendered]

\* SaveState called by the allocation runner: it takes persistLock and reads
\* the fields ...
SaveStateBegin ==
    /\ Alive /\ UNCHANGED query
    /\ pc # "new"
    /\ ~saving.held
    /\ saving' = [held |-> TRUE, snap |-> Snapshot, fields |-> Fields]
    /\ UNCHANGED <<pc, handle, running, fieldV, disk, saved, faults, destroyV, unblockV, preV, restartV,
                   collV, localV, envV, waitCh, tracker, kill, updates, lastPersist, obs>>

\* ... and writes the file, then releases persistLock.
SaveStateEnd ==
    /\ Alive /\ UNCHANGED query
    /\ saving.held
    /\ \E ok \in Outcomes :
          /\ disk' = persistState(saving.snap, ok)
          /\ saved' = IF ok THEN saving.fields ELSE saved
          /\ faults' = IF ok THEN faults ELSE faults - 1
    /\ saving' = NoSaving
    /\ UNCHANGED <<pc, handle, running, fieldV, destroyV, unblockV, preV, restartV,
                   collV, localV, envV, waitCh, tracker, kill, updates, lastPersist, obs>>

\* DestroyState removes the file under persistLock (212-217).
DestroyState ==
    /\ Alive /\ UNCHANGED query
    /\ pc = "done"
    /\ ~saving.held
    /\ disk.exists
    /\ disk' = NoSnapshot
    /\ UNCHANGED <<pc, handle, running, fieldV, saving, saved, faults, destroyV, unblockV, preV, restartV,
                   collV, localV, envV, waitCh, tracker, kill, updates, lastPersist, obs>>

\* a setState that calls the updater without SaveState
setStateWithoutSave(state, event) ==
    /\ updates' = Append(updates, [state |-> state, event |-> event])
    /\ lastPersist' = "none"
    /\ UNCHANGED <<disk, saved, faults, saving>>

\* setState(state, event): SaveState, whose error is only logged, then the
\* updater (220-228). The run loop waits for persistLock.
setState(state, event) ==
    /\ ~saving.held
    /\ \E ok \in Outcomes :
          /\ disk' = persistState(Snapshot, ok)
          /\ saved' = IF ok THEN Fields ELSE saved
          /\ faults' = IF ok THEN faults ELSE faults - 1
          /\ lastPersist' = IF ok THEN "ok" ELSE "err"
    /\ updates' = Append(updates, [state |-> state, event |-> event])
    /\ UNCHANGED saving

\* driver.Open(ctx, id): succeeds only while the handle's process is there.
CanOpen(id) == id # EmptyID /\ hstate[HandleOfID(id)] \in {"live", "killed"}

\* a RestoreState that installs the handle of the snapshot whether Open
\* found it or not
OpenedRegardless(ok) == HandleOfID(disk.HandleID)

\* r.handle after d.Open (173-183): the handle when Open returned one
Opened(ok) == IF ok THEN HandleOfID(disk.HandleID) ELSE handle

\* RestoreState (150-190), called at most once, before MarkReceived and Run.
RestoreState ==
    /\ Alive /\ UNCHANGED query
    /\ pc = "new"
    /\ restoreRes = "none"
    /\ ~saving.held
    /\ IF ~disk.exists \/ disk.Task = NilTask
       THEN \* restoreState fails, or the snapshot has no task
            /\ restoreRes' = "err"
            /\ UNCHANGED <<task, payloadRendered, handle, running>>
       ELSE /\ task' = disk.Task
            /\ payloadRendered' = disk.PayloadRendered
            /\ IF disk.HandleID = EmptyID
               THEN /\ restoreRes' = "ok"
                    /\ UNCHANGED <<handle, running>>
               ELSE \E driverOK \in BOOLEAN, openOK \in BOOLEAN :
                      IF ~driverOK
                      THEN /\ restoreRes' = "err"
                           /\ UNCHANGED <<handle, running>>
                      ELSE /\ restoreRes' = IF openOK /\ CanOpen(disk.HandleID)
                                             THEN "opened" ELSE "not opened"
                           /\ handle' = Opened(openOK /\ CanOpen(disk.HandleID))
                           /\ running' = IF openOK /\ CanOpen(disk.HandleID) THEN TRUE ELSE running
    /\ UNCHANGED <<pc, persistV, destroyV, unblockV, preV, restartV, collV, localV, envV,
                   waitCh, tracker, kill, updates, lastPersist, obs>>

\* MarkReceived (127-129): the updater is called directly.
MarkReceived ==
    /\ Alive /\ UNCHANGED query
    /\ pc = "new"
    /\ restoreRes # "err"
    /\ pc' = "received"
    /\ updates' = Append(updates, [state |-> TaskStatePending, event |-> NewTaskEvent(TaskReceived)])
    /\ lastPersist' = "none"
    /\ UNCHANGED <<handle, running, fieldV, persistV, destroyV, unblockV, preV, restartV,
                   collV, localV, envV, waitCh, tracker, kill, obs>>

\* ------------------------------------------------------ Run (242-261)
\* go r.collectResourceUsageStats(stopCollection) on a channel just made;
\* own is r.handle at that moment (history: the handle it was started for).
NewStopChan == Len(stopChans) + 1
SpawnCollector ==
    /\ stopCollection' = NewStopChan
    /\ stopChans' = Append(stopChans, 0)
    /\ collectors' = collectors \cup {[ch |-> NewStopChan, own |-> handle, ph |-> "select", h |-> NilHandle]}

\* go r.prestart(prestartResultCh) on a channel just made (317-318); an
\* earlier prestart that has not sent its start signal yet still will.
SpawnPrestart ==
    /\ prestart' = [cur |-> "start",
                    old |-> prestart.old + (IF prestart.cur = "start" THEN 1 ELSE 0)]
    /\ prestartResultCh' = <<>>

\* a SetupFailure event without the fails-task bit
setupFailureEventNotFailing == [NewTaskEvent(TaskSetupFailure) EXCEPT !.Error = TRUE]

\* NewTaskEvent(TaskSetupFailure).SetSetupError(e).SetFailsTask() (253)
setupFailureEvent == [NewTaskEvent(TaskSetupFailure) EXCEPT !.Error = TRUE, !.FailsTask = TRUE]

\* Run up to the first select of run(): createDriver, then 299-318.
Run ==
    /\ Alive /\ UNCHANGED query
    /\ pc = "received"
    /\ \E driverOK \in BOOLEAN :
         IF ~driverOK
         THEN /\ setState(TaskStateDead, setupFailureEvent)
              /\ pc' = "exit"
              /\ UNCHANGED <<preV, collV, localV>>
         ELSE /\ pc' = "wait"
              /\ SpawnPrestart
              /\ IF handle # NilHandle
                 THEN /\ SpawnCollector
                      /\ handleWaitCh' = handle
                      /\ UNCHANGED taskStats
                 ELSE UNCHANGED <<collV, localV>>
              /\ UNCHANGED <<startCh, emitV>>
    /\ UNCHANGED <<handle, running, fieldV, destroyV, unblockV, restartV, envV,
                   waitCh, tracker, kill, obs>>

\* a Run that returns without closing r.waitCh
ExitWithoutClose ==
    /\ Alive /\ UNCHANGED query
    /\ pc = "exit"
    /\ pc' = "done"
    /\ UNCHANGED <<handle, running, fieldV, persistV, destroyV, unblockV, preV, restartV,
                   collV, localV, envV, waitCh, tracker, kill, updates, lastPersist, obs>>

\* defer close(r.waitCh) (243)
Exit ==
    /\ Alive /\ UNCHANGED query
    /\ pc = "exit"
    /\ pc' = "done"
    /\ waitCh' = waitCh + 1
    /\ UNCHANGED <<handle, running, fieldV, persistV, destroyV, unblockV, preV, restartV,
                   collV, localV, envV, tracker, kill, updates, lastPersist, obs>>

\* ------------------------------------------------- prestart (264-274)
\* a prestart that reports failure
prestartResultFalse == FALSE

\* resultCh <- true (272)
prestartResult == TRUE

\* select { case r.startCh <- struct{}{}: default: }; resultCh <- true; return.
\* Neither send blocks: startCh drops a second signal, resultCh has room for one.
prestartRun ==
    /\ Alive /\ UNCHANGED query
    /\ prestart.cur = "start"
    /\ startCh' = 1
    /\ prestartResultCh' = <<prestartResult>>
    /\ prestart' = [prestart EXCEPT !.cur = "none"]
    /\ UNCHANGED <<pc, handle, running, fieldV, persistV, destroyV, unblockV,
                   restartV, collV, localV, envV, waitCh, tracker, kill, updates, lastPersist, obs>>

\* the same by the prestart of an earlier iteration; its result goes to a
\* channel nobody reads any more
prestartOldRun ==
    /\ Alive /\ UNCHANGED query
    /\ prestart.old > 0
    /\ startCh' = 1
    /\ prestart' = [prestart EXCEPT !.old = @ - 1]
    /\ UNCHANGED <<pc, handle, running, fieldV, persistV, destroyV, unblockV, prestartResultCh,
                   restartV, collV, localV, envV, waitCh, tracker, kill, updates, lastPersist, obs>>

\* ------------------------------------------- the restart tracker (4.1)
SetStartError(t, err) == [t EXCEPT !.startErr = err]
SetWaitResult(t) == [t EXCEPT !.waitRes = TRUE]
SetRestartTriggered(t) == [t EXCEPT !.triggered = TRUE]
\* GetState: the decisions the policy may take on what was recorded, when
\* it can still grant `left` restarts. A triggered restart is forced and
\* free; an unrecoverable start error is final.
GetState(t, left) ==
    IF t.triggered
    THEN {[state |-> TaskRestarting, forced |-> TRUE, reason |-> "restart triggered"]}
    ELSE IF t.startErr = "unrecoverable"
    THEN {[state |-> TaskNotRestarting, forced |-> FALSE, reason |-> "unrecoverable error"]}
    ELSE {[state |-> st, forced |-> FALSE, reason |-> "restart policy"] :
             st \in {TaskNotRestarting, TaskTerminated}
                    \cup (IF left > 0 THEN {TaskRestarting} ELSE {})}
\* the tracker after GetState returned
Decided(t) == [t EXCEPT !.startErr = "none", !.waitRes = FALSE, !.triggered = FALSE]

\* ------------------------------------------- run: the WAIT select (320-432)
\* case success := <-prestartResultCh (323-327)
recvPrestartResult ==
    /\ Alive /\ UNCHANGED query
    /\ pc = "wait"
    /\ prestartResultCh # <<>>
    /\ prestartResultCh' = <<>>
    /\ IF Head(prestartResultCh)
       THEN UNCHANGED <<pc, emitV>>
       ELSE /\ setState(TaskStateDead, NilEvent)
            /\ pc' = "exit"
    /\ UNCHANGED <<handle, running, fieldV, destroyV, unblockV, startCh, prestart,
                   restartV, collV, localV, envV, waitCh, tracker, kill, obs>>

\* a startTask that does not keep the handle Start returned
startTaskDroppingHandle(outcome) ==
    /\ handle' = handle
    /\ hstate' = IF outcome = "ok" THEN [hstate EXCEPT ![NextHandle] = "live"] ELSE hstate
    /\ obs' = [obs EXCEPT !.starts = IF outcome = "driver" THEN @ ELSE @ + 1]

\* startTask (535-560): createDriver, then drv.Start; r.handle is set on success.
\* outcome: "ok", "driver" (createDriver failed), "start" (Start failed, recoverable)
startTask(outcome) ==
    /\ handle' = IF outcome = "ok" THEN NextHandle ELSE handle
    /\ hstate' = IF outcome = "ok" THEN [hstate EXCEPT ![NextHandle] = "live"] ELSE hstate
    /\ obs' = [obs EXCEPT !.starts = IF outcome = "driver" THEN @ ELSE @ + 1]
StartErrorOf(outcome) ==
    CASE outcome = "ok" -> "none"
      [] outcome = "driver" -> "unrecoverable"
      [] OTHER -> "recoverable"

\* a start signal that starts the task whether there is a handle or not
handleAlwaysEmpty == TRUE

\* handleEmpty := r.handle == nil, read under handleLock (332-334)
handleEmpty == handle = NilHandle

\* case <-r.startCh (328-338): startTask only when there is no handle
recvStartCh ==
    /\ Alive /\ UNCHANGED query
    /\ pc = "wait"
    /\ startCh = 1
    /\ startCh' = 0
    /\ IF handleEmpty
       THEN /\ Unborn # {}
            /\ \E outcome \in {"ok", "driver", "start"} :
                 /\ startTask(outcome)
                 /\ tracker' = SetStartError(tracker, StartErrorOf(outcome))
                 /\ pc' = IF outcome = "ok" THEN "started" ELSE "start_failed"
       ELSE UNCHANGED <<pc, handle, hstate, obs, tracker>>
    /\ UNCHANGED <<running, fieldV, persistV, destroyV, unblockV, prestart, prestartResultCh,
                   restartV, collV, localV, panicked, budget, waitCh, kill, updates, lastPersist>>

\* 339-342: the start failed
emitDriverFailure ==
    /\ Alive /\ UNCHANGED query
    /\ pc = "start_failed"
    /\ setState(NoState, [NewTaskEvent(TaskDriverFailure) EXCEPT !.Error = TRUE])
    /\ pc' = "restart"
    /\ UNCHANGED <<handle, running, fieldV, destroyV, unblockV, preV, restartV, collV, localV,
                   envV, waitCh, tracker, kill, obs>>

\* 345: the start succeeded
emitStarted ==
    /\ Alive /\ UNCHANGED query
    /\ pc = "started"
    /\ setState(TaskStateRunning, NewTaskEvent(TaskStarted))
    /\ pc' = "mark_running"
    /\ UNCHANGED <<handle, running, fieldV, destroyV, unblockV, preV, restartV, collV, localV,
                   envV, waitCh, tracker, kill, obs>>

\* 346-355: running, the collector if there is none, the handle's WaitCh
markRunning ==
    /\ Alive /\ UNCHANGED query
    /\ pc = "mark_running"
    /\ running' = TRUE
    /\ IF stopCollection = 0
       THEN SpawnCollector
       ELSE UNCHANGED <<stopCollection, stopChans, collectors>>
    /\ handleWaitCh' = handle
    /\ pc' = "wait"
    /\ UNCHANGED <<handle, fieldV, persistV, destroyV, unblockV, preV, restartV, taskStats,
                   envV, waitCh, tracker, kill, updates, lastPersist, obs>>

\* close(stopCollection): closing nil or a closed channel panics
CanClose == stopCollection # 0 /\ stopChans[stopCollection] = 0
CloseStopCollection == [stopChans EXCEPT ![stopCollection] = @ + 1]

\* case waitRes := <-handleWaitCh (358-371); the driver never sends nil
recvWaitRes ==
    /\ Alive /\ UNCHANGED query
    /\ pc = "wait"
    /\ handleWaitCh # NilHandle
    /\ hstate[handleWaitCh] = "exited"
    /\ IF CanClose
       THEN /\ hstate' = [hstate EXCEPT ![handleWaitCh] = "drained"]
            /\ running' = FALSE
            /\ stopChans' = CloseStopCollection
            /\ tracker' = SetWaitResult(tracker)
            /\ pc' = "terminated"
            /\ UNCHANGED panicked
       ELSE /\ panicked' = "close of nil or closed channel"
            /\ UNCHANGED <<hstate, running, stopChans, tracker, pc>>
    /\ UNCHANGED <<handle, fieldV, persistV, destroyV, unblockV, preV, restartV, collectors,
                   taskStats, localV, budget, waitCh, kill, updates, lastPersist, obs>>

\* 372-375
emitTerminated ==
    /\ Alive /\ UNCHANGED query
    /\ pc = "terminated"
    /\ setState(NoState, [NewTaskEvent(TaskTerminated) EXCEPT !.Error = TRUE])
    /\ pc' = "restart"
    /\ UNCHANGED <<handle, running, fieldV, destroyV, unblockV, preV, restartV, collV, localV,
                   envV, waitCh, tracker, kill, obs>>

\* case event := <-r.restartCh (377-388): a blocked Restart() hands over its event
recvRestartCh ==
    /\ Alive /\ UNCHANGED query
    /\ pc = "wait"
    /\ restartCh > 0
    /\ restartCh' = restartCh - 1
    /\ IF ~running
       THEN UNCHANGED <<pc, emitV, kill>>
       ELSE /\ setState(TaskStateRunning, NewTaskEvent(TaskRestartSignal))
            /\ kill' = [NoKill EXCEPT !.cont = "restart"]
            /\ pc' = "kill"
    /\ UNCHANGED <<handle, running, fieldV, destroyV, unblockV, preV, collV, localV,
                   envV, waitCh, tracker, obs>>

\* killTask's event (506-514)
KillingEvent(killingEvent) ==
    IF killingEvent # NilEvent
    THEN [killingEvent EXCEPT !.Type = TaskKilling]
    ELSE NewTaskEvent(TaskKilling)

\* the first time the loop sees that Destroy was called (history)
SeeDestroy == [obs EXCEPT !.seenAt = IF @ = -1 THEN Len(updates) ELSE @]

\* a destroy branch that emits every destroy event
EmitsEveryDestroyEvent(e) == TRUE

\* a destroy branch that hands no event to killTask
killEventNone(e) == NilEvent

\* 414-421: the killEvent handed to killTask, and whether the destroy event
\* is emitted first
killEvent(e) == IF e.Type # TaskKilled /\ e.Type = TaskKilling THEN e ELSE NilEvent
EmitsDestroyEvent(e) == e.Type # TaskKilled /\ e.Type # TaskKilling

\* case <-r.destroyCh (402-423)
recvDestroyCh ==
    /\ Alive /\ UNCHANGED query
    /\ pc = "wait"
    /\ destroyCh > 0
    /\ obs' = [SeeDestroy EXCEPT !.seenRunning = running]
    /\ IF ~running
       THEN /\ setState(TaskStateDead, destroyEvent)
            /\ pc' = "exit"
            /\ UNCHANGED kill
       ELSE /\ IF EmitsDestroyEvent(destroyEvent)
               THEN setState(TaskStateRunning, destroyEvent)
               ELSE UNCHANGED emitV
            /\ kill' = [NoKill EXCEPT !.cont = "destroy", !.event = killEvent(destroyEvent)]
            /\ pc' = "kill"
    /\ UNCHANGED <<handle, running, fieldV, destroyV, unblockV, preV, restartV, collV, localV,
                   envV, waitCh, tracker>>

\* killTask up to handleDestroy (498-517); both callers saw running = true
killTask ==
    /\ Alive /\ UNCHANGED query
    /\ pc = "kill"
    /\ IF ~running
       THEN /\ pc' = "after_kill"
            /\ UNCHANGED emitV
       ELSE /\ setState(TaskStateRunning, KillingEvent(kill.event))
            /\ pc' = "shutdown"
    /\ UNCHANGED <<handle, running, fieldV, destroyV, unblockV, preV, restartV, collV, localV,
                   envV, waitCh, tracker, kill, obs>>

\* a backoff without its limit
BackoffUncapped(i) == Pow2(2 * i) * killBackoffBaseline

\* a loop that makes one attempt more
OneMoreAttempt(i) == i <= killFailureLimit

\* the backoff after failed attempt i (630-633)
Backoff(i) == Min(Pow2(2 * i) * killBackoffBaseline, killBackoffLimit)

\* the loop's condition (627)
MoreAttempts(i) == i < killFailureLimit

\* handleDestroy (625-644) from turn i of its loop on, when the first `fails`
\* calls of r.handle.Shutdown() fail and the next one succeeds; k is what
\* the loop has done so far
RECURSIVE handleDestroyLoop(_, _)
handleDestroyLoop(k, fails) ==
    IF ~MoreAttempts(k.i)
    THEN k                                       \* return (643)
    ELSE IF k.calls < fails
    THEN handleDestroyLoop(
             [k EXCEPT !.err = k.calls + 1, !.calls = @ + 1, !.i = @ + 1,
                       !.sleeps = Append(@, Backoff(k.i))], fails)
    ELSE [k EXCEPT !.err = 0, !.calls = @ + 1, !.destroyed = TRUE]   \* return true, nil (640)

\* handleDestroy as called by killTask (520). The loop shares nothing with
\* the other goroutines but the handle it shuts down, so it is one step.
handleDestroy ==
    /\ Alive /\ UNCHANGED query
    /\ pc = "shutdown"
    /\ \E fails \in 0..MaxShutdownFailures :
         /\ kill' = handleDestroyLoop(kill, fails)
         /\ hstate' = IF kill'.destroyed /\ hstate[handle] = "live"
                      THEN [hstate EXCEPT ![handle] = "killed"] ELSE hstate
    /\ pc' = "killed"
    /\ UNCHANGED <<handle, running, fieldV, persistV, destroyV, unblockV, preV, restartV, collV,
                   localV, panicked, budget, waitCh, tracker, updates, lastPersist, obs>>

\* killTask after handleDestroy (526-531)
killTaskDone ==
    /\ Alive /\ UNCHANGED query
    /\ pc = "killed"
    /\ running' = FALSE
    /\ setState(NoState, [NewTaskEvent(TaskKilled) EXCEPT !.Error = (kill.err # 0)])
    /\ pc' = "after_kill"
    /\ kill' = [NoKill EXCEPT !.cont = kill.cont]
    /\ UNCHANGED <<handle, fieldV, destroyV, unblockV, preV, restartV, collV, localV,
                   envV, waitCh, tracker, obs>>

\* close(stopCollection) after killTask (391, 424)
closeAfterKill ==
    /\ Alive /\ UNCHANGED query
    /\ pc = "after_kill"
    /\ IF CanClose
       THEN /\ stopChans' = CloseStopCollection
            /\ pc' = "drain"
            /\ UNCHANGED panicked
       ELSE /\ panicked' = "close of nil or closed channel"
            /\ UNCHANGED <<stopChans, pc>>
    /\ UNCHANGED <<handle, running, fieldV, persistV, destroyV, unblockV, preV, restartV,
                   collectors, taskStats, localV, hstate, budget, waitCh, tracker, kill,
                   updates, lastPersist, obs>>

\* a restart branch that records the drained wait result in the tracker
trackerRecordingDrained(t, cont) == IF cont = "restart" THEN SetWaitResult(t) ELSE t

\* 394-399: the drained wait result is dropped; only the restart branch
\* tells the tracker, that the restart was triggered
trackerAfterDrain(t, cont) == IF cont = "restart" THEN SetRestartTriggered(t) ELSE t

\* a loop that goes on without the handle's result
waitResultNotAwaited(h) == TRUE

\* <-handleWaitCh (394, 427) can receive: the handle has sent its result
waitResultReady(h) == hstate[h] = "exited"

\* <-handleWaitCh (393-400, 427): blocks until the handle delivers its result;
\* the restart branch skips a nil channel, the destroy branch would block on it
drainWaitCh ==
    /\ Alive /\ UNCHANGED query
    /\ pc = "drain"
    /\ IF handleWaitCh = NilHandle
       THEN /\ kill.cont = "restart"
            /\ UNCHANGED hstate
       ELSE /\ waitResultReady(handleWaitCh)
            /\ hstate' = IF hstate[handleWaitCh] = "exited"
                         THEN [hstate EXCEPT ![handleWaitCh] = "drained"] ELSE hstate
    /\ tracker' = trackerAfterDrain(tracker, kill.cont)
    /\ pc' = IF kill.cont = "restart" THEN "restart" ELSE "dead_nil"
    /\ kill' = NoKill
    /\ UNCHANGED <<handle, running, fieldV, persistV, destroyV, unblockV, preV, restartV, collV,
                   localV, panicked, budget, waitCh, updates, lastPersist, obs>>

\* r.setState(models.TaskStateDead, nil); return (429-430, 436-438)
emitDeadNil ==
    /\ Alive /\ UNCHANGED query
    /\ pc = "dead_nil"
    /\ setState(TaskStateDead, NilEvent)
    /\ pc' = "exit"
    /\ UNCHANGED <<handle, running, fieldV, destroyV, unblockV, preV, restartV, collV, localV,
                   envV, waitCh, tracker, kill, obs>>

\* GetReason: the cause of the decision GetState returned
GetReason(d) == d.reason
\* NewTaskEvent(TaskNotRestarting).SetRestartReason(reason).SetFailsTask() (460-462)
notRestartingEvent(reason) ==
    [NewTaskEvent(TaskNotRestarting) EXCEPT !.RestartReason = reason, !.FailsTask = TRUE]

\* ---------------------------------------------- the RESTART gate (434-493)
\* shouldRestart up to its sleep (454-474)
shouldRestart ==
    /\ Alive /\ UNCHANGED query
    /\ pc = "restart"
    /\ \E d \in GetState(tracker, budget.policy) :
         /\ tracker' = Decided(tracker)
         /\ budget' = [budget EXCEPT !.policy = IF d.state = TaskRestarting /\ ~d.forced
                                                 THEN @ - 1 ELSE @]
         /\ CASE d.state = TaskNotRestarting ->
                   /\ setState(TaskStateDead, notRestartingEvent(GetReason(d)))
                   /\ pc' = "dead_nil"
              [] d.state = TaskRestarting ->
                   /\ setState(TaskStatePending,
                               [NewTaskEvent(TaskRestarting)
                                   EXCEPT !.Delay = IF d.forced THEN 0 ELSE 1,
                                          !.RestartReason = GetReason(d)])
                   /\ pc' = "sleep"
              [] OTHER ->
                   /\ pc' = "dead_nil"
                   /\ UNCHANGED emitV
    /\ UNCHANGED <<handle, running, fieldV, destroyV, unblockV, preV, restartV, collV, localV,
                   hstate, panicked, waitCh, kill, obs>>

\* case <-time.After(when) (478): the timer of the restart delay fires
timeAfter ==
    /\ Alive /\ UNCHANGED query
    /\ pc = "sleep"
    /\ pc' = "timer_fired"
    /\ UNCHANGED <<handle, running, fieldV, persistV, destroyV, unblockV, preV, restartV, collV,
                   localV, envV, waitCh, tracker, kill, updates, lastPersist, obs>>

\* a sleep that a waiting Restart() ends too
sleepEndedByRestart == pc = "timer_fired" \/ (pc = "sleep" /\ (destroyCh > 0 \/ restartCh > 0))

\* select { case <-time.After(when): case <-r.destroyCh: } (477-480)
sleepEnded == pc = "timer_fired" \/ (pc = "sleep" /\ destroyCh > 0)

\* a loop that keeps the closed channel for the next start
stopCollectionKept == stopCollection
\* stopCollection = nil (444)
stopCollectionNil == 0

\* a gate that does not look at r.destroy after the sleep
destroyedNever == FALSE
\* destroyed := r.destroy, read under destroyLock (483-485)
destroyed == destroy

\* the end of the sleep, the look at r.destroy (477-492) and, when not
\* destroyed, the clearing of the handle and the next iteration's prestart
\* (441-446, 317-318)
restartSleep ==
    /\ Alive /\ UNCHANGED query
    /\ sleepEnded
    /\ IF destroyed
       THEN /\ obs' = SeeDestroy
            /\ setState(TaskStateDead, destroyEvent)
            /\ pc' = "dead_nil"
            /\ UNCHANGED <<handle, localV, prestart, prestartResultCh>>
       ELSE /\ handle' = NilHandle
            /\ handleWaitCh' = NilHandle
            /\ stopCollection' = stopCollectionNil
            /\ SpawnPrestart
            /\ pc' = "wait"
            /\ UNCHANGED <<emitV, obs>>
    /\ UNCHANGED <<running, fieldV, destroyV, unblockV, startCh, restartV, collV,
                   envV, waitCh, tracker, kill>>

\* --------------------------------- collectResourceUsageStats (564-604)
\* The reads of r.handle take no lock; they are modelled as reading the
\* current value.
Collector(c, phase, h) == [ch |-> c.ch, own |-> c.own, ph |-> phase, h |-> h]

\* case <-next.C, and `if r.handle == nil { continue }` (571-575)
collectorTick(c) ==
    /\ Alive /\ UNCHANGED query
    /\ c.ph = "select"
    /\ handle # NilHandle
    /\ collectors' = (collectors \ {c}) \cup {Collector(c, "call", NilHandle)}
    /\ UNCHANGED <<pc, handle, running, fieldV, persistV, destroyV, unblockV, preV, restartV,
                   stopChans, taskStats, localV, envV, waitCh, tracker, kill, updates,
                   lastPersist, obs>>

\* r.handle.Stats() is called (576): r.handle is read again
collectorCall(c) ==
    /\ Alive /\ UNCHANGED query
    /\ c.ph = "call"
    /\ IF handle = NilHandle
       THEN /\ panicked' = "nil pointer dereference"
            /\ UNCHANGED <<collectors, obs>>
       ELSE /\ collectors' = (collectors \ {c}) \cup {Collector(c, "stats", handle)}
            /\ obs' = [obs EXCEPT !.foreignSample = @ \/ (handle # c.own /\ stopChans[c.ch] > 0)]
            /\ UNCHANGED panicked
    /\ UNCHANGED <<pc, handle, running, fieldV, persistV, destroyV, unblockV, preV, restartV,
                   stopChans, taskStats, localV, hstate, budget, waitCh, tracker, kill,
                   updates, lastPersist>>

\* Stats() returns (578-599): a sample, which is published; the error "not
\* implemented", which ends the collector; another error
collectorReturn(c) ==
    /\ Alive /\ UNCHANGED query
    /\ c.ph = "stats"
    /\ \E res \in {"sample", "not implemented", "error"} :
         /\ collectors' = (collectors \ {c}) \cup
                          (IF res = "not implemented" THEN {} ELSE {Collector(c, "select", NilHandle)})
         /\ taskStats' = IF res = "sample" THEN c.h ELSE taskStats
         /\ obs' = [obs EXCEPT !.lateSample = @ \/ (res = "sample" /\ stopChans[c.ch] > 0)]
    /\ UNCHANGED <<pc, handle, running, fieldV, persistV, destroyV, unblockV, preV, restartV,
                   stopChans, localV, envV, waitCh, tracker, kill, updates, lastPersist>>

\* case <-stopCollection: return (600-601)
collectorStop(c) ==
    /\ Alive /\ UNCHANGED query
    /\ c.ph = "select"
    /\ stopChans[c.ch] > 0
    /\ collectors' = collectors \ {c}
    /\ UNCHANGED <<pc, handle, running, fieldV, persistV, destroyV, unblockV, preV, restartV,
                   stopChans, taskStats, localV, envV, waitCh, tracker, kill, updates,
                   lastPersist, obs>>

\* a LatestTaskStats that does not look at r.running
LatestTaskStatsUnguarded == taskStats

\* LatestTaskStats (607-619)
LatestTaskStats == IF ~running THEN NilHandle ELSE taskStats

\* ------------------------------------------ external commands (647-702)
\* Restart: the caller blocks in `select { case r.restartCh <- event: case <-r.waitCh: }`
Restart ==
    /\ Alive /\ UNCHANGED query
    /\ budget.restart > 0
    /\ budget' = [budget EXCEPT !.restart = @ - 1]
    /\ restartCh' = restartCh + 1
    /\ UNCHANGED <<pc, handle, running, fieldV, persistV, destroyV, unblockV, preV, collV,
                   localV, hstate, panicked, waitCh, tracker, kill, updates, lastPersist, obs>>

\* case <-r.waitCh: the run loop has exited, the call returns
RestartReturn ==
    /\ Alive /\ UNCHANGED query
    /\ restartCh > 0
    /\ waitCh > 0
    /\ restartCh' = restartCh - 1
    /\ obs' = [obs EXCEPT !.undelivered = TRUE]
    /\ UNCHANGED <<pc, handle, running, fieldV, persistV, destroyV, unblockV, preV,
                   collV, localV, envV, waitCh, tracker, kill, updates, lastPersist>>

\* a Destroy without its `if r.destroy { return }`
DestroyUnlatched(event) ==
    /\ Alive /\ UNCHANGED query
    /\ budget.destroy > 0
    /\ budget' = [budget EXCEPT !.destroy = @ - 1]
    /\ destroy' = TRUE
    /\ destroyEvent' = event
    /\ destroyCh' = destroyCh + 1
    /\ UNCHANGED <<pc, handle, running, fieldV, persistV, unblockV, preV, restartV, collV,
                   localV, hstate, panicked, waitCh, tracker, kill, updates, lastPersist, obs>>

\* Destroy (692-702), under destroyLock
Destroy(event) ==
    /\ Alive /\ UNCHANGED query
    /\ budget.destroy > 0
    /\ budget' = [budget EXCEPT !.destroy = @ - 1]
    /\ IF destroy
       THEN UNCHANGED <<destroy, destroyEvent, destroyCh, obs>>
       ELSE /\ destroy' = TRUE
            /\ destroyEvent' = event
            /\ destroyCh' = destroyCh + 1
            /\ obs' = [obs EXCEPT !.startsAtDestroy = obs.starts]
    /\ UNCHANGED <<pc, handle, running, fieldV, persistV, unblockV, preV, restartV, collV,
                   localV, hstate, panicked, waitCh, tracker, kill, updates, lastPersist>>

\* Kill (659-668)
Kill(fail) == Destroy([NewTaskEvent(TaskKilling) EXCEPT !.FailsTask = fail])

\* the events the allocation runner destroys a task with
DestroyEvents == {NewTaskEvent(TaskKilled), NewTaskEvent(TaskSiblingFailed)}

\* UnblockStart (672-682), under unblockLock
UnblockStart ==
    /\ Alive /\ UNCHANGED query
    /\ budget.unblock > 0
    /\ budget' = [budget EXCEPT !.unblock = @ - 1]
    /\ IF unblocked
       THEN UNCHANGED <<unblocked, unblockCh>>
       ELSE /\ unblocked' = TRUE
            /\ unblockCh' = unblockCh + 1
    /\ UNCHANGED <<pc, handle, running, fieldV, persistV, destroyV, preV, restartV, collV,
                   localV, hstate, panicked, waitCh, tracker, kill, updates, lastPersist, obs>>

\* ------------------------------------------------- what is done under locks
\* What SaveState does while it holds locks (194-208): r.handle.ID() under
\* persistLock and handleLock when there is a handle, persistState's file
\* I/O under persistLock.
SaveStateOps(h) ==
    {[op |-> "file I/O", locks |-> {"persistLock"}]}
    \cup (IF h # NilHandle
          THEN {[op |-> "handle call", locks |-> {"persistLock", "handleLock"}]}
          ELSE {})
\* Destroy closes r.destroyCh under destroyLock (693-701), UnblockStart
\* r.unblockCh under unblockLock (673-681); a close does not block.
DestroyOps == {[op |-> "close", locks |-> {"destroyLock"}]}
UnblockStartOps == {[op |-> "close", locks |-> {"unblockLock"}]}
\* LatestTaskStats reads two fields under taskStatsLock and runningLock (608-618).
LatestTaskStatsOps == {[op |-> "read", locks |-> {"taskStatsLock", "runningLock"}]}
\* what the calls made so far, or under way, have done under locks
LockedOps ==
    (IF saving.held THEN SaveStateOps(saving.fields.Handle) ELSE {})
    \cup (IF destroy THEN DestroyOps ELSE {})
    \cup (IF unblocked THEN UnblockStartOps ELSE {})
    \cup LatestTaskStatsOps

\* The accesses of r.handle the goroutines are about to make in this state,
\* with the goroutine, the source line and whether handleLock is held
\* there: the run loop
\* (306, 312, 333, 355, 443), startTask (557), handleDestroy (628), the
\* stats collectors (573, 576), SaveState (204-205) and RestoreState (182).
HandleAccess(by, line, write, locked) ==
    [by |-> by, line |-> line, write |-> write, locked |-> locked]
HandleAccesses ==
    (IF pc = "new" /\ restoreRes = "none" /\ disk.HandleID # EmptyID
     THEN {HandleAccess(<<"RestoreState", 0>>, 182, TRUE, TRUE)} ELSE {})
    \cup (IF pc = "received"
          THEN {HandleAccess(<<"run", 0>>, 306, FALSE, TRUE)}
               \cup (IF handle # NilHandle THEN {HandleAccess(<<"run", 0>>, 312, FALSE, FALSE)} ELSE {})
          ELSE {})
    \cup (IF pc = "wait" /\ startCh = 1
          THEN {HandleAccess(<<"run", 0>>, 333, FALSE, TRUE)}
               \cup (IF handleEmpty THEN {HandleAccess(<<"run", 0>>, 557, TRUE, TRUE)} ELSE {})
          ELSE {})
    \cup (IF pc = "mark_running" THEN {HandleAccess(<<"run", 0>>, 355, FALSE, FALSE)} ELSE {})
    \cup (IF pc = "shutdown" THEN {HandleAccess(<<"run", 0>>, 628, FALSE, FALSE)} ELSE {})
    \cup (IF sleepEnded /\ ~destroy THEN {HandleAccess(<<"run", 0>>, 443, TRUE, TRUE)} ELSE {})
    \cup (IF saving.held THEN {HandleAccess(<<"SaveState", 0>>, 204, FALSE, TRUE)} ELSE {})
    \cup {HandleAccess(<<"collector", c.ch>>, 573, FALSE, FALSE) : c \in {d \in collectors : d.ph = "select"}}
    \cup {HandleAccess(<<"collector", c.ch>>, 576, FALSE, FALSE) : c \in {d \in collectors : d.ph = "call"}}

\* ------------------------------------------------------- environment
\* the process behind a handle ends; its result waits on the handle's WaitCh
HandleExit(h) ==
    /\ Alive /\ UNCHANGED query
    /\ hstate[h] \in {"live", "killed"}
    /\ hstate' = [hstate EXCEPT ![h] = "exited"]
    /\ UNCHANGED <<pc, handle, running, fieldV, persistV, destroyV, unblockV, preV, restartV,
                   collV, localV, panicked, budget, waitCh, tracker, kill, updates,
                   lastPersist, obs>>

\* the agent process ends and a new one makes a new Worker for the task: the
\* state file and the driver's processes are what is left
AgentRestart ==
    /\ budget.crash > 0
    /\ budget' = [budget EXCEPT !.crash = @ - 1]
    /\ pc' = "new"
    /\ task' = AllocTask
    /\ payloadRendered' = FALSE
    /\ handle' = NilHandle
    /\ running' = FALSE
    /\ taskStats' = NilHandle
    /\ saving' = NoSaving
    /\ restoreRes' = "none"
    /\ startCh' = 0
    /\ prestart' = NoPrestart
    /\ prestartResultCh' = <<>>
    /\ restartCh' = 0
    /\ destroy' = FALSE /\ destroyEvent' = NilEvent /\ destroyCh' = 0
    /\ unblocked' = FALSE /\ unblockCh' = 0
    /\ waitCh' = 0
    /\ stopCollection' = 0 /\ handleWaitCh' = NilHandle
    /\ stopChans' = <<>>
    /\ collectors' = {}
    /\ tracker' = NewTracker
    /\ kill' = NoKill
    /\ updates' = <<>>
    /\ lastPersist' = "none"
    /\ obs' = NoObs
    /\ panicked' = ""
    /\ UNCHANGED <<disk, saved, hstate, faults, query>>

\* ------------------------- BuildRangeComparison (sql/builder.go 115-169)
LessThanComparisonSign == "<"
LessThanOrEqualsComparisonSign == "<="
EqualsComparisonSign == "="
GreaterThanOrEqualsComparisonSign == ">="
GreaterThanComparisonSign == ">"
RangeSigns == {LessThanComparisonSign, LessThanOrEqualsComparisonSign,
               GreaterThanOrEqualsComparisonSign, GreaterThanComparisonSign}

\* the names of the key's columns, and the values of columns and arguments
ColumnNames == <<"a", "b", "c", "d", "e", "f">>
Values == 0..MaxValue

\* EscapeName (26-31): the name, which is no quoted literal here, between
\* two backticks (character 96)
EscapeName(name) == <<96, name, 96>>
\* the column an escaped name names, as the database reads it
ColumnOf(escaped) == escaped[2]

\* buildPreparedValues (47-53): a placeholder for every column
buildPreparedValues(length) == [i \in 1..length |-> "?"]

\* BuildValueComparison (60-69): "(column sign value)" with the column escaped
BuildValueComparison(column, value, comparisonSign) ==
    [column |-> EscapeName(column), sign |-> comparisonSign, value |-> value]

\* BuildEqualsComparison (71-90): the equalities of the columns, joined by
\* " and "; here the sequence of them
BuildEqualsComparison(columns, values) ==
    [i \in 1..Len(columns) |-> BuildValueComparison(columns[i], values[i], EqualsComparisonSign)]

\* a comparison of the loop with the range's sign on the columns before too
rangeOnEveryColumn(columns, values, i, comparisonSign) ==
    [k \in 1..(i + 1) |-> BuildValueComparison(columns[k], values[k], comparisonSign)]

\* the comparison the loop makes for the column of index i, from 0
\* (138-153): "(equalities AND range)", or the range alone for the first
\* column; here the sequence of what is joined by "and"
rangeComparison(columns, values, i, comparisonSign) ==
    IF Len(SubSeq(columns, 1, i)) > 0
    THEN BuildEqualsComparison(SubSeq(columns, 1, i), SubSeq(values, 1, i))
         \o <<BuildValueComparison(columns[i + 1], values[i + 1], comparisonSign)>>
    ELSE <<BuildValueComparison(columns[i + 1], values[i + 1], comparisonSign)>>

\* arguments appended with the bound of the range first
rangeArgsBoundFirst(args, i) ==
    IF Len(SubSeq(args, 1, i)) > 0 THEN <<args[i + 1]>> \o SubSeq(args, 1, i) ELSE <<args[i + 1]>>

\* the arguments the loop appends for the column of index i (150-155)
rangeArgs(args, i) ==
    IF Len(SubSeq(args, 1, i)) > 0 THEN SubSeq(args, 1, i) \o <<args[i + 1]>> ELSE <<args[i + 1]>>

\* the loop over the columns from index i on (136-157)
RECURSIVE rangeLoop(_, _, _, _, _, _)
rangeLoop(columns, values, args, comparisonSign, i, acc) ==
    IF i >= Len(columns) THEN acc
    ELSE rangeLoop(columns, values, args, comparisonSign, i + 1,
             [comparisons |-> Append(acc.comparisons, rangeComparison(columns, values, i, comparisonSign)),
              explodedArgs |-> acc.explodedArgs \o rangeArgs(args, i)])

\* BuildRangeComparison (115-169); result is the sequence of the comparisons
\* joined by " or "
BuildRangeComparison(columns, values, args, comparisonSign) ==
    IF Len(columns) = 0 \/ Len(columns) # Len(values) \/ Len(columns) # Len(args)
    THEN [result |-> <<>>, explodedArgs |-> <<>>, err |-> TRUE]
    ELSE LET includeEquals == comparisonSign \in {LessThanOrEqualsComparisonSign,
                                                  GreaterThanOrEqualsComparisonSign}
             sign == IF comparisonSign = LessThanOrEqualsComparisonSign THEN LessThanComparisonSign
                     ELSE IF comparisonSign = GreaterThanOrEqualsComparisonSign
                          THEN GreaterThanComparisonSign
                          ELSE comparisonSign
             loop == rangeLoop(columns, values, args, sign, 0,
                               [comparisons |-> <<>>, explodedArgs |-> <<>>])
         IN  IF includeEquals
             THEN [result |-> Append(loop.comparisons, BuildEqualsComparison(columns, values)),
                   explodedArgs |-> loop.explodedArgs \o args, err |-> FALSE]
             ELSE [result |-> loop.comparisons, explodedArgs |-> loop.explodedArgs, err |-> FALSE]

\* How the database reads the predicate: the placeholders take the
\* arguments from left to right.
RECURSIVE Placeholders(_)
Placeholders(result) ==
    IF result = <<>> THEN 0
    ELSE Cardinality({k \in 1..Len(Head(result)) : Head(result)[k].value = "?"})
         + Placeholders(Tail(result))
Compare(x, sign, y) ==
    CASE sign = LessThanComparisonSign -> x < y
      [] sign = GreaterThanComparisonSign -> x > y
      [] sign = EqualsComparisonSign -> x = y
      [] OTHER -> FALSE
\* whether the arguments are as many as the placeholders
Binds(result, bound) == Placeholders(result) = Len(bound)
\* whether a row satisfies the predicate with these arguments
Satisfies(row, result, bound) ==
    /\ Binds(result, bound)
    /\ \E f \in 1..Len(result) :
            \A k \in 1..Len(result[f]) :
                Compare(row[ColumnOf(result[f][k].column)], result[f][k].sign,
                        bound[Placeholders(SubSeq(result, 1, f - 1)) + k])

\* the variables of the supervisor
workerV == <<pc, task, payloadRendered, handle, running, taskStats, disk, saving,
             restoreRes, startCh, prestart, prestartResultCh, restartCh,
             destroy, destroyEvent, destroyCh, unblocked, unblockCh, waitCh,
             stopCollection, handleWaitCh, stopChans, collectors, hstate, tracker,
             kill, updates, lastPersist, obs, panicked, saved, faults, budget>>

\* BuildRangeComparison called with a placeholder for every column, as
\* BuildRangePreparedComparison (171-174) calls it for plain columns
CallBuildRangeComparison ==
    /\ query.phase = "input"
    /\ LET r == BuildRangeComparison(query.columns, buildPreparedValues(Len(query.columns)),
                                     query.args, query.sign)
       IN  query' = [query EXCEPT !.phase = "built", !.result = r.result,
                                  !.explodedArgs = r.explodedArgs, !.err = r.err]
    /\ UNCHANGED workerV

\* the database tries a row against the predicate and the arguments
TryRow ==
    /\ query.phase = "built"
    /\ ~query.err
    /\ \E row \in [{query.columns[i] : i \in 1..Len(query.columns)} -> Values] :
          query' = [query EXCEPT !.phase = "tried", !.row = row,
                                 !.binds = Binds(query.result, query.explodedArgs),
                                 !.holds = Satisfies(row, query.result, query.explodedArgs)]
    /\ UNCHANGED workerV

\* ------------------------------------------------------ specifications
\* the supervisor: Run and its loop, with the prestart goroutines
RunLoop ==
    \/ RestoreState \/ MarkReceived \/ Run \/ Exit
    \/ prestartRun \/ prestartOldRun
    \/ recvPrestartResult \/ recvStartCh \/ emitDriverFailure \/ emitStarted \/ markRunning
    \/ recvWaitRes \/ emitTerminated \/ recvRestartCh \/ recvDestroyCh
    \/ killTask \/ handleDestroy \/ killTaskDone \/ closeAfterKill \/ drainWaitCh \/ emitDeadNil
    \/ shouldRestart \/ timeAfter \/ restartSleep

\* the same with the processes behind the handles
Supervisor == RunLoop \/ \E h \in Handles : HandleExit(h)

\* the commands of the allocation runner
Commands ==
    \/ Restart \/ RestartReturn
    \/ \E e \in DestroyEvents : Destroy(e)
    \/ \E fail \in BOOLEAN : Kill(fail)

\* the same, destroying with one event only
FewCommands ==
    \/ Restart \/ RestartReturn
    \/ Destroy(NewTaskEvent(TaskKilled))

\* the stats collectors
Collectors ==
    \/ \E c \in collectors : collectorTick(c)
    \/ \E c \in collectors : collectorCall(c)
    \/ \E c \in collectors : collectorReturn(c)
    \/ \E c \in collectors : collectorStop(c)

\* The supervisor under the commands of the allocation runner.
Init == InitWith(Budget(MaxRestartCalls, MaxDestroyCalls, 0, 0, MaxRestarts), 0)
Next == Supervisor \/ Commands
Spec == Init /\ [][Next]_vars

\* The same where no goroutine that can take a step waits forever, and a
\* process that Shutdown() has stopped does exit. A process that was not
\* stopped may run forever.
KilledHandleExit(h) == hstate[h] = "killed" /\ HandleExit(h)
Fairness ==
    /\ WF_vars(RunLoop)
    /\ WF_vars(RestartReturn)
    /\ \A h \in Handles : WF_vars(KilledHandleExit(h))
SpecLive == Init /\ [][Next]_vars /\ Fairness

\* The same with the state file written from outside and failing writes.
InitPersist == InitWith(Budget(MaxRestartCalls, MaxDestroyCalls, 0, 0, MaxRestarts), MaxFaults)
NextPersist == Supervisor \/ FewCommands \/ SaveStateBegin \/ SaveStateEnd \/ DestroyState
SpecPersist == InitPersist /\ [][NextPersist]_vars

\* The same with the agent restarting.
InitRestore == InitWith(Budget(MaxRestartCalls, MaxDestroyCalls, 0, MaxCrashes, 0), 0)
NextRestore == Supervisor \/ FewCommands \/ SaveStateBegin \/ SaveStateEnd \/ AgentRestart
SpecRestore == InitRestore /\ [][NextRestore]_vars

\* The same with any number of callers of Destroy, Kill and UnblockStart.
InitLatch == InitWith(Budget(MaxRestartCalls, MaxLatchCalls, MaxLatchCalls, 0, 0), 0)
NextLatch == Supervisor \/ Commands \/ UnblockStart
SpecLatch == InitLatch /\ [][NextLatch]_vars

\* The same with the stats collectors running.
InitStats == InitWith(Budget(MaxRestartCalls, MaxDestroyCalls, 0, 0, 0), 0)
NextStats == Supervisor \/ FewCommands \/ Collectors
SpecStats == InitStats /\ [][NextStats]_vars

\* ------------------------------------------------------------ properties
\* the state symbols given to the updater, in order (an empty state is none)
IsSymbol(u) == u.state # NoState
Symbols == SelectSeq(updates, IsSymbol)

\* C1: the state symbols of a run are a sequence of Pending and Running
\* followed by one Dead, which is the last: no symbol follows a Dead, so Dead
\* is emitted once, and a run that has ended has emitted it.
DeadOnceAndFinal ==
    /\ \A i \in 1..Len(Symbols) : Symbols[i].state = TaskStateDead => i = Len(Symbols)
    /\ \A i \in 1..Len(Symbols) :
          Symbols[i].state \in {TaskStatePending, TaskStateRunning, TaskStateDead}
    /\ pc = "done" => Len(Symbols) > 0 /\ Symbols[Len(Symbols)].state = TaskStateDead

\* C2: in every state of the supervisor, running = true implies that the
\* handle is not nil.
RunningHasHandle == running => handle # NilHandle

\* a task is running on the handle of its second or later start, after the
\* RESTART gate cleared the handle of the start before
RunningAfterRestart == running /\ handle # NilHandle /\ obs.starts >= 2

\* the updater calls with a non-Dead state symbol after the loop saw the destroy
NonDeadAfterDestroy ==
    Cardinality({i \in (obs.seenAt + 1)..Len(updates) :
                    updates[i].state \in {TaskStatePending, TaskStateRunning}})

\* C3 as stated: after the supervisor observed Destroy(e), at most one
\* further updater call carries a non-Dead state symbol, whatever e is.
AtMostOneAfterDestroy == obs.seenAt # -1 => NonDeadAfterDestroy <= 1

\* C3 as the code has it: after the supervisor observed Destroy(e), at most
\* two further updater calls carry a non-Dead state symbol, and at most one
\* when e is a TaskKilled or a TaskKilling event.
AtMostTwoAfterDestroy ==
    obs.seenAt # -1 =>
        NonDeadAfterDestroy <= (IF destroyEvent.Type \in {TaskKilled, TaskKilling} THEN 1 ELSE 2)

\* a run destroyed with an event of another kind has ended after two such calls
TwoAfterDestroy ==
    /\ pc = "done"
    /\ obs.seenAt # -1
    /\ destroyEvent.Type = TaskSiblingFailed
    /\ NonDeadAfterDestroy = 2

\* C4: a set_state call whose write succeeds leaves on disk a snapshot whose
\* handle_id is the id of the handle the supervisor holds at that moment, or
\* the empty string when it holds none.
SnapshotNamesCurrentHandle ==
    [][(Len(updates') = Len(updates) + 1 /\ lastPersist' = "ok") =>
          disk'.HandleID = (IF handle' = NilHandle THEN EmptyID ELSE ID(handle'))]_vars

\* set_state has rewritten, with no handle, a snapshot that named the handle
\* of a start before
SnapshotRewrittenEmpty ==
    /\ lastPersist = "ok"
    /\ handle = NilHandle
    /\ disk.HandleID = EmptyID
    /\ \E i \in 1..Len(updates) : updates[i].event.Type = TaskStarted

\* C5: whatever the number of calls, destroyCh and unblockCh are closed once
\* and never twice, destroy and unblocked stay true, and destroyEvent stays
\* the event of the first Destroy.
LatchesAreOneShot ==
    /\ [](/\ destroyCh <= 1 /\ unblockCh <= 1
          /\ (destroy <=> destroyCh = 1)
          /\ (unblocked <=> unblockCh = 1)
          /\ (destroy <=> destroyEvent # NilEvent))
    /\ [][/\ destroy => destroy' /\ destroyEvent' = destroyEvent
          /\ unblocked => unblocked']_vars

\* Destroy (or Kill) and UnblockStart have each been called more than once
CalledTwice ==
    /\ budget.destroy = 0 /\ destroy /\ destroyCh = 1
    /\ budget.unblock = 0 /\ unblocked /\ unblockCh = 1

\* C6: handleDestroy calls Shutdown at most 5 times; it returns (true, nil)
\* at the first call that succeeds, making no further call, and (false, the
\* error of the last call) when all 5 calls fail.
ShutdownAttempts ==
    pc = "killed" =>
        /\ kill.calls >= 1 /\ kill.calls <= 5
        /\ kill.destroyed => kill.err = 0 /\ Len(kill.sleeps) = kill.calls - 1
        /\ ~kill.destroyed => kill.calls = 5 /\ kill.err = 5 /\ Len(kill.sleeps) = 5

\* handleDestroy has given up after five failed calls
ShutdownGivenUp == pc = "killed" /\ ~kill.destroyed /\ kill.calls = 5

\* the backoffs of the claim, in seconds
ClaimedBackoffs == <<5, 20, 80, 120, 120>>

\* C7: the backoff after the failed attempt i is min(5 * 4^i, 120) seconds,
\* that is 5, 20, 80, 120, 120 for i = 0..4, and one handleDestroy sleeps no
\* more than 600 seconds in all.
BackoffSchedule ==
    pc = "killed" =>
        /\ Len(kill.sleeps) <= Len(ClaimedBackoffs)
        /\ \A i \in 1..Len(kill.sleeps) : kill.sleeps[i] = ClaimedBackoffs[i]
        /\ SumSeq(kill.sleeps) <= 600

\* handleDestroy has slept all five backoffs
AllBackoffsSlept == pc = "killed" /\ Len(kill.sleeps) = 5 /\ SumSeq(kill.sleeps) = 345

\* C8: no collector publishes a sample after the stop channel it was started
\* with was closed.
NoSampleAfterStop == ~obs.lateSample

\* C9: no collector calls Stats() on a handle field that is nil, and no
\* collector whose stop channel was closed samples the handle of a later start.
NoAccessAfterClear == panicked # "nil pointer dereference" /\ ~obs.foreignSample

\* C10: RestoreState after SaveState gives task and payloadRendered as they
\* were when the state file was written; and when the file named a handle
\* and driver.Open succeeded, that handle is installed and running is true.
RestoreReconstructs ==
    (pc = "new" /\ restoreRes # "none" /\ disk.exists /\ disk.Task # NilTask) =>
        /\ task = saved.Task
        /\ payloadRendered = saved.PayloadRendered
        /\ restoreRes = "opened" =>
              handle = saved.Handle /\ handle # NilHandle /\ running

\* a new agent process has restored what the process before it saved: the
\* task and the payload flag it had restored itself, and the handle it started
RestoredFromOwnSave ==
    /\ budget.crash < MaxCrashes
    /\ pc = "new" /\ restoreRes = "opened"
    /\ task = SnapTask /\ payloadRendered
    /\ handle # OldHandle /\ running

\* C11 as stated: every call of the updater comes after a snapshot that was
\* written, so the updater sees nothing that is not on disk.
UpdaterSeesOnlyPersisted == updates # <<>> => lastPersist = "ok"

\* C11 as the code has it: every call of the updater by setState comes, in
\* the same step, after an attempt to write the snapshot of the fields, and
\* the call is made whether the write succeeded (the file is that snapshot)
\* or failed (the file is as it was); only MarkReceived calls the updater
\* with no attempt, for (Pending, TaskReceived).
UpdaterFollowsSaveAttempt ==
    [][Len(updates') = Len(updates) + 1 =>
          \/ /\ lastPersist' = "ok"
             /\ disk' = [exists |-> TRUE, Task |-> task', PayloadRendered |-> payloadRendered',
                         HandleID |-> IF handle' = NilHandle THEN EmptyID ELSE ID(handle')]
          \/ /\ lastPersist' = "err"
             /\ disk' = disk /\ faults' = faults - 1
          \/ /\ lastPersist' = "none"
             /\ pc = "new" /\ disk' = disk
             /\ updates'[Len(updates')] =
                   [state |-> TaskStatePending, event |-> NewTaskEvent(TaskReceived)]]_vars

\* the updater was called with Dead after a write of the snapshot that failed
UpdaterCalledAfterFailedSave ==
    /\ lastPersist = "err"
    /\ updates[Len(updates)].state = TaskStateDead

\* a running task is being destroyed and all five calls of Shutdown have failed
KillGivenUp == pc = "killed" /\ kill.cont = "destroy" /\ ~kill.destroyed /\ kill.calls = 5

\* the run has ended with Dead as its last state symbol
EndedDead == pc = "done" /\ waitCh = 1 /\ Len(Symbols) > 0 /\ Symbols[Len(Symbols)].state = TaskStateDead

\* C12: when a running task is destroyed and Shutdown fails all 5 times, the
\* TaskKilled event carries the error and the supervisor still eventually
\* emits Dead and Run returns.
KillErrorStillDead ==
    /\ [][(KillGivenUp /\ pc' = "after_kill") =>
             updates'[Len(updates')] =
                [state |-> NoState, event |-> [NewTaskEvent(TaskKilled) EXCEPT !.Error = TRUE]]]_vars
    /\ (KillGivenUp ~> EndedDead)

\* the updater calls since the loop saw the destroy
AfterDestroy == IF obs.seenAt < 0 THEN <<>> ELSE SubSeq(updates, obs.seenAt + 1, Len(updates))

RestartSignalAt ==
    LET at == {i \in 1..Len(updates) : updates[i].event.Type = TaskRestartSignal}
    IN  IF at = {} THEN 0 ELSE CHOOSE i \in at : \A j \in at : j <= i
SinceRestartSignal ==
    IF RestartSignalAt = 0 THEN <<>> ELSE SubSeq(updates, RestartSignalAt, Len(updates))

\* C14: a Restart delivered while the task runs gives the updater
\* Running(TaskRestartSignal), Running(TaskKilling), ""(TaskKilled),
\* Pending(Restarting) and, the next start succeeding, Running(TaskStarted),
\* in that order; the loop tells the tracker that the restart was triggered
\* and records neither a wait result nor a start error, and the decision
\* takes nothing from the restart budget.
RestartWhileRunning ==
    /\ [](LET s == SinceRestartSignal IN
            /\ Len(s) >= 1 => s[1] = [state |-> TaskStateRunning, event |-> NewTaskEvent(TaskRestartSignal)]
            /\ Len(s) >= 2 => s[2] = [state |-> TaskStateRunning, event |-> NewTaskEvent(TaskKilling)]
            /\ Len(s) >= 3 => s[3].state = NoState /\ s[3].event.Type = TaskKilled
            /\ Len(s) >= 4 => s[4] = [state |-> TaskStatePending,
                                    event |-> [NewTaskEvent(TaskRestarting)
                                                  EXCEPT !.RestartReason = "restart triggered"]]
            /\ Len(s) >= 5 =>
                  \/ s[5] = [state |-> TaskStateRunning, event |-> NewTaskEvent(TaskStarted)]
                  \/ s[5].state = NoState /\ s[5].event.Type = TaskDriverFailure   \* the start failed
                  \/ destroy /\ s[5] = [state |-> TaskStateDead, event |-> destroyEvent])
    /\ [][(pc = "drain" /\ kill.cont = "restart" /\ pc' # "drain") =>
             /\ pc' = "restart"
             /\ tracker' = [tracker EXCEPT !.triggered = TRUE]
             /\ ~tracker'.waitRes /\ tracker'.startErr = "none"]_vars
    /\ [][(pc = "restart" /\ tracker.triggered /\ pc' # "restart") =>
             pc' = "sleep" /\ budget'.policy = budget.policy]_vars

\* the task runs again after a Restart, and the restart budget is untouched
RestartedWithBudget ==
    /\ Len(SinceRestartSignal) = 5
    /\ SinceRestartSignal[5].event.Type = TaskStarted
    /\ running
    /\ budget.policy = MaxRestarts

\* C15: r.waitCh is closed on every way out of Run, once, and after the last
\* call of the updater; and a Restart call that waits when Run has returned
\* returns, without its event being delivered.
WaitChClosedOnExit ==
    /\ [](waitCh <= 1 /\ (pc = "done" <=> waitCh = 1))
    /\ [][waitCh' # waitCh => (pc = "exit" /\ pc' = "done" /\ waitCh' = 1)]_vars
    /\ [][waitCh = 1 => updates' = updates /\ pc' = "done"]_vars
    /\ (pc = "exit" ~> waitCh = 1)
    /\ [][(waitCh = 1 /\ restartCh' < restartCh) => (obs'.undelivered /\ pc' = pc)]_vars
    /\ ((waitCh = 1 /\ restartCh > 0) ~> restartCh = 0)

\* a Restart call made when Run had returned has returned
RestartReturnedAfterExit ==
    /\ pc = "done" /\ waitCh = 1
    /\ obs.undelivered /\ restartCh = 0
    /\ Len(updates) >= 3

\* C16: LatestTaskStats returns the stored sample if and only if running is
\* true when it is called, and nil whenever running is false, whatever
\* sample is stored. The call reads both fields under their locks, so what
\* it returns is a function of the state it is called in.
StatsOnlyWhileRunning ==
    /\ running => LatestTaskStats = taskStats
    /\ ~running => LatestTaskStats = NilHandle

\* a sample is stored while the task is not running
SampleStoredNotRunning == ~running /\ taskStats # NilHandle /\ pc = "done"

\* C17: no lock is held while its holder does a blocking channel operation
\* or calls into the driver or a handle, and no lock but persistLock is held
\* across the file I/O of the snapshot.
NoLockAcrossCalls ==
    \A o \in LockedOps :
        /\ o.op \in {"blocking channel operation", "driver call", "handle call"} => o.locks = {}
        /\ o.op = "file I/O" => o.locks \subseteq {"persistLock"}

\* BuildRangeComparison called for every key of up to MaxColumns columns,
\* every vector of arguments and every range sign, and every row tried.
InitRange ==
    /\ NewWorker
    /\ disk = NoSnapshot
    /\ hstate = [h \in Handles |-> "unborn"]
    /\ saved = NoFields
    /\ budget = Budget(0, 0, 0, 0, 0)
    /\ faults = 0
    /\ \E n \in 1..MaxColumns : \E args \in [1..n -> Values] : \E sign \in RangeSigns :
          query = [phase |-> "input", columns |-> SubSeq(ColumnNames, 1, n), args |-> args,
                   sign |-> sign, result |-> <<>>, explodedArgs |-> <<>>, err |-> FALSE,
                   row |-> <<>>, binds |-> FALSE, holds |-> FALSE]
NextRange == CallBuildRangeComparison \/ TryRow
SpecRange == InitRange /\ [][NextRange]_vars

\* ---- C18
\* the lexicographic order of tuples of the same length
RECURSIVE LexLess(_, _)
LexLess(c, v) ==
    IF c = <<>> THEN FALSE
    ELSE \/ Head(c) < Head(v)
         \/ Head(c) = Head(v) /\ LexLess(Tail(c), Tail(v))
LexCompare(c, sign, v) ==
    CASE sign = LessThanComparisonSign -> LexLess(c, v)
      [] sign = GreaterThanComparisonSign -> LexLess(v, c)
      [] sign = LessThanOrEqualsComparisonSign -> LexLess(c, v) \/ c = v
      [] sign = GreaterThanOrEqualsComparisonSign -> LexLess(v, c) \/ c = v
\* the row tried, as the tuple of its key columns
RowTuple == [i \in 1..Len(query.columns) |-> query.row[query.columns[i]]]
\* C18: the predicate BuildRangeComparison produces for n >= 1 columns is
\* true of a row exactly when the row's tuple is lexicographically less
\* (greater) than the bound values for < (>), and less (greater) than or
\* equal to them for <= (>=).
RangeIsLexicographic ==
    query.phase = "tried" =>
        /\ query.binds
        /\ query.holds = LexCompare(RowTuple, query.sign, query.args)
\* a row of three columns accepted by <= that agrees with the bound in the
\* first column only
RangeDecidedBySecondColumn ==
    /\ query.phase = "tried"
    /\ Len(query.columns) = MaxColumns
    /\ query.sign = LessThanOrEqualsComparisonSign
    /\ query.holds = TRUE
    /\ RowTuple[1] = query.args[1]
    /\ RowTuple[2] < query.args[2]
    /\ RowTuple[3] > query.args[3]

\* ---- C19
\* a_1, a_1 a_2, ..., a_1 .. a_n from the i-th on
RECURSIVE Prefixes(_, _)
Prefixes(args, i) ==
    IF i > Len(args) THEN <<>> ELSE SubSeq(args, 1, i) \o Prefixes(args, i + 1)
Inclusive == query.sign \in {LessThanOrEqualsComparisonSign, GreaterThanOrEqualsComparisonSign}
\* the index of a column in the key
IndexOf(column) == CHOOSE i \in 1..Len(query.columns) : query.columns[i] = column
\* C19: explodedArgs lists the arguments in the left-to-right order of the
\* placeholders of the predicate: fragment i contributes a_1..a_i and the
\* inclusive form appends a_1..a_n, n(n+1)/2 arguments (plus n when
\* inclusive) for as many placeholders; for [a, b] and <= the order is
\* a_v, a_v, b_v, a_v, b_v.
ExplodedArgsFollowPlaceholders ==
    query.phase \in {"built", "tried"} =>
        LET n == Len(query.columns)
            count == (n * (n + 1)) \div 2 + (IF Inclusive THEN n ELSE 0)
        IN  /\ ~query.err
            /\ query.explodedArgs
                  = Prefixes(query.args, 1) \o (IF Inclusive THEN query.args ELSE <<>>)
            /\ Len(query.explodedArgs) = count
            /\ Placeholders(query.result) = count
            /\ \A f \in 1..Len(query.result) : \A k \in 1..Len(query.result[f]) :
                  /\ query.result[f][k].value = "?"
                  /\ query.explodedArgs[Placeholders(SubSeq(query.result, 1, f - 1)) + k]
                        = query.args[IndexOf(ColumnOf(query.result[f][k].column))]
            /\ (query.columns = <<"a", "b">> /\ query.sign = LessThanOrEqualsComparisonSign)
                  => query.explodedArgs = <<query.args[1], query.args[1], query.args[2],
                                            query.args[1], query.args[2]>>
\* the inclusive predicate built for three columns with three different
\* arguments
ExplodedInclusiveThreeColumns ==
    /\ query.phase = "built"
    /\ Len(query.columns) = MaxColumns
    /\ query.sign = GreaterThanOrEqualsComparisonSign
    /\ Cardinality({query.args[i] : i \in 1..MaxColumns}) = MaxColumns
    /\ Len(query.explodedArgs) = (MaxColumns * (MaxColumns + 1)) \div 2 + MaxColumns

\* ---- C20
LastUpdate == updates[Len(updates)]
TerminatedUpdate ==
    [state |-> NoState, event |-> [NewTaskEvent(TaskTerminated) EXCEPT !.Error = TRUE]]
\* the gate answered NotRestarting to a wait result: Dead(NotRestarting) was
\* given to the updater right after ""(TaskTerminated)
NotRestartingAfterWait ==
    \E i \in 2..Len(updates) :
        /\ updates[i - 1] = TerminatedUpdate
        /\ updates[i].event.Type = TaskNotRestarting
\* between the wait result and the gate: running is false, the stop channel
\* of the collector is closed and the tracker holds the wait result, before
\* ""(TaskTerminated) is emitted; the gate is consulted after it
WaitResultOrderStates ==
    /\ pc = "terminated" =>
          /\ ~running
          /\ stopCollection # 0 /\ stopChans[stopCollection] = 1
          /\ tracker.waitRes
    /\ (pc = "restart" /\ tracker.waitRes) =>
          /\ LastUpdate = TerminatedUpdate
          /\ ~running
          /\ stopChans[stopCollection] = 1
\* the steps of it: the tracker records a wait result only in the step that
\* receives it, ""(TaskTerminated) is the next update, and the record is
\* kept until the gate takes it
WaitResultOrder ==
    /\ []WaitResultOrderStates
    /\ [][(tracker'.waitRes /\ ~tracker.waitRes) =>
             (pc = "wait" /\ pc' = "terminated" /\ updates' = updates)]_vars
    /\ [][pc = "terminated" =>
             /\ tracker' = tracker
             /\ pc' # pc => (pc' = "restart" /\ updates' = Append(updates, TerminatedUpdate))]_vars
    /\ [][(tracker.waitRes /\ ~tracker'.waitRes) =>
             (pc = "restart" /\ pc' # "restart" /\ LastUpdate = TerminatedUpdate)]_vars
\* Dead(NotRestarting) carries the tracker's reason and the fails-task bit
NotRestartingCarriesReason ==
    \A i \in 1..Len(updates) :
        updates[i].event.Type = TaskNotRestarting =>
            /\ updates[i].state = TaskStateDead
            /\ updates[i].event.FailsTask
            /\ updates[i].event.RestartReason \in {"restart policy", "unrecoverable error"}
\* C20: on a wait result the run loop sets running = false and closes the
\* stop channel before it emits ""(TaskTerminated), the tracker holds the
\* wait result, the gate is consulted after that, and when the gate answers
\* NotRestarting the run ends with Dead(NotRestarting), which carries the
\* tracker's reason and the fails-task bit.
WaitResultEndsNotRestarting ==
    /\ WaitResultOrderStates
    /\ NotRestartingCarriesReason
    /\ (pc \in {"exit", "done"} /\ NotRestartingAfterWait) =>
          LastUpdate.event.Type = TaskNotRestarting
\* what the run ends with instead: Dead(NotRestarting) and then Dead(nil)
EndsWithDeadNil ==
    (pc \in {"exit", "done"} /\ NotRestartingAfterWait) =>
        /\ LastUpdate = [state |-> TaskStateDead, event |-> NilEvent]
        /\ updates[Len(updates) - 1].event.Type = TaskNotRestarting

\* ---- C21
\* the updates that carry an event of this type
UpdatesOf(type) == {i \in 1..Len(updates) : updates[i].event.Type = type}
DriverFailureUpdate ==
    [state |-> NoState, event |-> [NewTaskEvent(TaskDriverFailure) EXCEPT !.Error = TRUE]]
IsRestartingUpdate(u) == u.state = TaskStatePending /\ u.event.Type = TaskRestarting
\* a failed startTask leaves no handle and running = false, is recorded in
\* the tracker and is followed by ""(DriverFailure) and the gate
StartFailureStates ==
    /\ pc = "start_failed" =>
          /\ handle = NilHandle /\ ~running
          /\ tracker.startErr \in {"recoverable", "unrecoverable"}
    /\ (pc = "restart" /\ tracker.startErr # "none") =>
          /\ handle = NilHandle /\ ~running
          /\ LastUpdate = DriverFailureUpdate
    /\ \A i \in UpdatesOf(TaskDriverFailure) :
          /\ updates[i] = DriverFailureUpdate
          /\ i < Len(updates) =>
                \/ IsRestartingUpdate(updates[i + 1])
                \/ updates[i + 1].state = TaskStateDead
\* every start after the first comes after Pending(Restarting)
RetriesFollowRestarting ==
    \A i \in UpdatesOf(TaskDriverFailure) \cup UpdatesOf(TaskStarted) :
        \/ updates[i - 1] = [state |-> TaskStatePending, event |-> NewTaskEvent(TaskReceived)]
        \/ IsRestartingUpdate(updates[i - 1])
\* the run has ended, every start of it failed, and nobody destroyed it
EveryStartFailed ==
    /\ pc \in {"exit", "done"}
    /\ UpdatesOf(TaskDriverFailure) # {}
    /\ UpdatesOf(TaskStarted) = {}
    /\ restoreRes # "opened"
    /\ ~destroy
\* k restarts allowed, k + 1 starts
StartsAreRestartsPlusOne ==
    EveryStartFailed =>
        Cardinality(UpdatesOf(TaskDriverFailure)) = Cardinality(UpdatesOf(TaskRestarting)) + 1
\* C21: a failed start leaves handle = nil and running = false and never
\* emits Running; it is recorded in the tracker, emits ""(DriverFailure) and
\* goes to the gate, which emits Pending(Restarting) before each retry; when
\* every start fails and the tracker allows k restarts there are k + 1
\* starts, and the run ends with Dead(NotRestarting, fails_task).
StartFailuresEndNotRestarting ==
    /\ StartFailureStates
    /\ RetriesFollowRestarting
    /\ StartsAreRestartsPlusOne
    /\ (EveryStartFailed /\ UpdatesOf(TaskNotRestarting) # {}) =>
          /\ LastUpdate.state = TaskStateDead
          /\ LastUpdate.event.Type = TaskNotRestarting
          /\ LastUpdate.event.FailsTask
\* the parts of it that hold
StartFailuresRetried ==
    /\ StartFailureStates
    /\ RetriesFollowRestarting
    /\ StartsAreRestartsPlusOne
    /\ (EveryStartFailed /\ UpdatesOf(TaskNotRestarting) # {}) =>
          /\ LastUpdate = [state |-> TaskStateDead, event |-> NilEvent]
          /\ updates[Len(updates) - 1].state = TaskStateDead
          /\ updates[Len(updates) - 1].event.Type = TaskNotRestarting
          /\ updates[Len(updates) - 1].event.FailsTask
\* two starts failed, one restart between them
TwoStartsFailed ==
    /\ EveryStartFailed
    /\ Cardinality(UpdatesOf(TaskDriverFailure)) = MaxRestarts + 1
    /\ UpdatesOf(TaskNotRestarting) # {}

\* ---- C22
\* C22: a start signal received while there is a handle is a no-op:
\* startTask is called only when the handle is nil, nothing is emitted for
\* the ignored signal, and a handle RestoreState installed is adopted when
\* the loop is entered (its wait channel taken, a stats collector started
\* for it) and is not started again.
StartSignalWithHandleIgnored ==
    /\ [][(startCh = 1 /\ startCh' = 0 /\ handle # NilHandle) =>
             /\ pc = "wait" /\ pc' = "wait"
             /\ updates' = updates
             /\ handle' = handle /\ hstate' = hstate /\ running' = running
             /\ obs'.starts = obs.starts /\ tracker' = tracker]_vars
    /\ [][(pc' \in {"started", "start_failed"} /\ pc' # pc) =>
             (pc = "wait" /\ handle = NilHandle /\ startCh = 1)]_vars
    /\ [][(pc = "received" /\ pc' = "wait" /\ handle # NilHandle) =>
             /\ handle' = handle
             /\ handleWaitCh' = handle
             /\ stopCollection' # 0 /\ stopChans'[stopCollection'] = 0
             /\ \E c \in collectors' : c.ch = stopCollection' /\ c.own = handle]_vars
    /\ [][\A h \in Handles :
             (hstate'[h] = "live" /\ hstate[h] # "live") =>
                 (hstate[h] = "unborn" /\ handle = NilHandle /\ handle' = h)]_vars
\* the start signal of prestart was taken while the restored handle was there
RestoredHandleKept ==
    /\ restoreRes = "opened"
    /\ pc = "wait"
    /\ prestart.cur = "none" /\ startCh = 0
    /\ handle = OldHandle /\ handleWaitCh = OldHandle
    /\ obs.starts = 0
    /\ Len(updates) = 1

\* ---- C23
Sleeping == pc \in {"sleep", "timer_fired"}
Ending == pc \in {"dead_nil", "exit", "done"}
\* C23: the sleep of the restart delay ends by its timer or by Destroy
\* only; when Destroy was called before the sleep is over the loop emits
\* (Dead, destroyEvent) and ends without another start; a Restart call made
\* during the sleep does not end it and is not taken before the loop is
\* back in its select.
SleepInterruptedByDestroyOnly ==
    /\ [][(Sleeping /\ pc' \notin {"sleep", "timer_fired"}) =>
             /\ pc = "timer_fired" \/ destroyCh > 0
             /\ IF destroy
                THEN /\ updates' = Append(updates, [state |-> TaskStateDead, event |-> destroyEvent])
                     /\ pc' = "dead_nil"
                     /\ handle' = handle
                ELSE /\ updates' = updates
                     /\ pc' = "wait"]_vars
    /\ [][(pc = "sleep" /\ pc' = "timer_fired") => UNCHANGED <<restartCh, destroyCh, updates>>]_vars
    /\ [][Sleeping => restartCh' >= restartCh]_vars
    /\ [][restartCh' < restartCh => (pc = "wait" \/ waitCh = 1)]_vars
    /\ [][Ending =>
             /\ obs'.starts = obs.starts
             /\ (\A h \in Handles : hstate'[h] = "live" => hstate[h] = "live")
             /\ Ending']_vars
    /\ ((Sleeping /\ destroy) ~> (pc = "done" /\ waitCh = 1))
\* Destroy was called during the sleep while a Restart call was waiting
DestroyedInSleep ==
    /\ pc = "dead_nil"
    /\ Len(updates) >= 2
    /\ LastUpdate = [state |-> TaskStateDead, event |-> destroyEvent]
    /\ IsRestartingUpdate(updates[Len(updates) - 1])
    /\ restartCh > 0
    /\ obs.seenAt = Len(updates) - 1

OpenFailureStartsAfresh ==
    /\ []((pc = "new" /\ restoreRes = "not opened") =>
             /\ handle = NilHandle /\ ~running
             /\ disk.HandleID # EmptyID
             /\ task = disk.Task
             /\ ENABLED MarkReceived)
    /\ [](restoreRes = "not opened" => handle # OldHandle)
    /\ [][(restoreRes = "not opened" /\ startCh = 1 /\ startCh' = 0 /\ Len(updates) = 1) =>
             /\ pc' \in {"started", "start_failed"}
             /\ pc' = "started" =>
                   (handle' # NilHandle /\ hstate[handle'] = "unborn" /\ hstate'[handle'] = "live")]_vars
    /\ ((restoreRes = "not opened" /\ pc = "wait" /\ Len(updates) = 1) ~>
           (pc \in {"started", "start_failed"} \/ destroy))
\* the task runs on a new handle after an Open that failed though the old
\* process is alive
RunningAfterOpenFailure ==
    /\ restoreRes = "not opened"
    /\ running
    /\ handle \notin {NilHandle, OldHandle}
    /\ hstate[OldHandle] = "live"

\* ---- C26
SetupFailed == UpdatesOf(TaskSetupFailure) # {}
\* C26: when createDriver fails at the entry of Run, the supervisor emits
\* one update, (Dead, SetupFailure) with the error and the fails-task bit,
\* does not enter the run loop, calls no driver.Start, spawns no stats
\* collector and no prestart, and returns, closing r.waitCh.
SetupFailureEndsRun ==
    /\ [](SetupFailed =>
             /\ updates = <<[state |-> TaskStatePending, event |-> NewTaskEvent(TaskReceived)],
                            [state |-> TaskStateDead,
                             event |-> [Type |-> TaskSetupFailure, Error |-> TRUE, FailsTask |-> TRUE,
                                        Delay |-> 0, RestartReason |-> "none"]]>>
             /\ pc \in {"exit", "done"}
             /\ obs.starts = 0
             /\ collectors = {} /\ stopChans = <<>> /\ stopCollection = 0
             /\ prestart = NoPrestart /\ startCh = 0 /\ prestartResultCh = <<>>
             /\ handleWaitCh = NilHandle
             /\ tracker = NewTracker)
    /\ [][SetupFailed' /\ ~SetupFailed => (pc = "received" /\ pc' = "exit")]_vars
    /\ [][SetupFailed => UNCHANGED <<updates, handle, running, hstate, collectors, tracker>>
                         \/ (\E h \in Handles : hstate' = [hstate EXCEPT ![h] = "exited"]
                                /\ UNCHANGED <<updates, handle, running, collectors, tracker>>)]_vars
    /\ (SetupFailed ~> (pc = "done" /\ waitCh = 1))
\* Run has returned after a setup failure
ReturnedAfterSetupFailure ==
    /\ SetupFailed
    /\ pc = "done" /\ waitCh = 1

\* ---- C27
\* C27: handleLock guards r.handle: every read and every write of it, by
\* the run loop, the kill executor, the stats collectors, SaveState and
\* RestoreState, is made with handleLock held, so no two goroutines access
\* it at once without the lock when one of them writes.
HandleLockGuardsHandle ==
    /\ \A a \in HandleAccesses : a.locked
    /\ \A a, b \in HandleAccesses :
          (a.by # b.by /\ a.write) => (a.locked /\ b.locked)
\* a collector reads r.handle without the lock while the loop writes it
UnlockedReadMeetsWrite ==
    \E a, b \in HandleAccesses :
        /\ a.by = <<"run", 0>> /\ a.write
        /\ b.by[1] = "collector" /\ ~b.locked

\* ---- C28
\* the handles this supervisor started or reattached
Owned(h) == h # OldHandle \/ restoreRes = "opened"
\* those of them that have not delivered their result on their wait channel
Undelivered == {h \in Handles : Owned(h) /\ hstate[h] \in {"live", "killed", "exited"}}
\* C28: at most one handle is live at any time: driver.Start is not called
\* for a new handle while a handle started or restored before has not
\* delivered its result; after a Restart or a Destroy the loop takes the
\* old handle's result before it clears the handle or ends.
AtMostOneLiveHandle ==
    /\ [](Cardinality(Undelivered) <= 1 /\ Undelivered \subseteq {handle})
    /\ [][(pc' \in {"started", "start_failed"} /\ pc = "wait") => Undelivered = {}]_vars
    /\ [][(handle # NilHandle /\ handle' = NilHandle) => Undelivered = {}]_vars
    /\ [][(pc = "drain" /\ pc' # "drain" /\ handleWaitCh # NilHandle) =>
             (hstate[handleWaitCh] = "exited" /\ hstate'[handleWaitCh] = "drained")]_vars
\* a second handle runs after the first has delivered its result to a Restart
SecondHandleAfterRestart ==
    /\ running /\ handle = 3 /\ hstate[3] = "live"
    /\ hstate[2] = "drained"
    /\ UpdatesOf(TaskRestartSignal) # {}

\* ---- C29
\* C29: when Run has returned (r.waitCh is closed) running is false, on
\* every way out, the setup failure at the entry of Run after a
\* RestoreState that installed a handle included; so LatestTaskStats
\* returns nil after the supervisor has ended.
NotRunningAfterExit ==
    waitCh = 1 => (~running /\ LatestTaskStats = NilHandle)
\* Run has returned after a setup failure and the restored handle is
\* still marked running
RunningAfterSetupFailure ==
    /\ waitCh = 1 /\ pc = "done"
    /\ SetupFailed
    /\ restoreRes = "opened"
    /\ running /\ handle = OldHandle
\* on the other ways out running is false
NotRunningAfterLoopExit ==
    (waitCh = 1 /\ ~SetupFailed) => (~running /\ LatestTaskStats = NilHandle)

\* ---- C30
\* Run was called and Destroy was called
DestroyedInRun == destroy /\ pc \notin {"new", "received"}
\* the loop waits for the result of a process that no Shutdown has stopped
WaitsForUnkilled ==
    /\ pc = "drain"
    /\ handleWaitCh # NilHandle
    /\ hstate[handleWaitCh] = "live"
\* C30: Destroy leads to termination: when Destroy is called during a run,
\* every call of Shutdown returns and a process delivers its result after a
\* Shutdown that succeeded, the supervisor eventually emits Dead and closes
\* r.waitCh, whatever the loop was doing and whatever Restart calls wait.
DestroyLeadsToExit == DestroyedInRun ~> EndedDead
\* the same unless every call of Shutdown failed and the process lives on
DestroyLeadsToExitIfKilled == DestroyedInRun ~> (EndedDead \/ WaitsForUnkilled)
\* Destroy was called, Shutdown failed five times and the loop waits
DestroyedAndWaiting ==
    /\ DestroyedInRun
    /\ WaitsForUnkilled
    /\ kill.cont = "destroy"
    /\ LastUpdate = [state |-> NoState, event |-> [NewTaskEvent(TaskKilled) EXCEPT !.Error = TRUE]]

\* ---- C31
\* a step of the run loop executes close(stopCollection)
ClosesStopCollection ==
    \/ (pc = "wait" /\ pc' = "terminated")
    \/ (pc = "after_kill" /\ pc' = "drain")
    \/ panicked' = "close of nil or closed channel"
\* C31: every stop-collection channel is closed at most once, and once when
\* the loop has returned; no close of a nil or closed channel happens: when
\* the wait-result, restart or destroy branch executes close(stopCollection)
\* the channel is not nil, was made for a collector of the current handle
\* and has not been closed before.
StopCollectionClosedOnce ==
    /\ [](panicked # "close of nil or closed channel")
    /\ [](\A ch \in DOMAIN stopChans : stopChans[ch] <= 1)
    /\ []((pc = "done" /\ Alive) => \A ch \in DOMAIN stopChans : stopChans[ch] = 1)
    /\ [][ClosesStopCollection =>
             /\ stopCollection # 0
             /\ stopChans[stopCollection] = 0
             /\ handle # NilHandle
             /\ \A ch \in DOMAIN stopChans : ch # stopCollection => stopChans[ch] = 1
             /\ stopChans' = [stopChans EXCEPT ![stopCollection] = 1]]_vars
    /\ [][Len(stopChans') > Len(stopChans) =>
             /\ stopCollection = 0
             /\ stopCollection' = Len(stopChans')
             /\ handle' # NilHandle /\ handle' = handle
             /\ \E c \in collectors' : c.ch = stopCollection' /\ c.own = handle]_vars
\* the second channel of a run was closed after the first
SecondStopCollectionClosed == Len(stopChans) = 2 /\ stopChans[1] = 1 /\ stopChans[2] = 1

\* ---- C32
\* C32: once Destroy has been called, before Run() or during it, the run
\* loop calls the driver's Start at most one more time, and never after it
\* has seen the closed destroyCh.
DestroyStopsStarts ==
    /\ [](obs.startsAtDestroy # -1 => obs.starts <= obs.startsAtDestroy + 1)
    /\ [][obs.seenAt # -1 => obs'.starts <= obs.starts]_vars
\* Destroy was called before the first start, the task was started once and
\* the run has ended
StartedOnceAfterDestroy ==
    /\ destroy /\ obs.startsAtDestroy = 0 /\ obs.starts = 1
    /\ obs.seenAt # -1
    /\ pc = "done"

\* Destroy was called between a restart and its start: one more start
RestartedOnceAfterDestroy == obs.startsAtDestroy = 1 /\ obs.starts = 2

====
